---- MODULE Spec2Model ----
(***************************************************************************)
(* Model of the PA characterisation bench: the external power servo        *)
(* (src/src/measurements/power_servo.py), the analyzer's measurement modes *)
(* (src/src/measurements/vsa.py) and the frequency sweep driver            *)
(* (src/main.py).                                                          *)
(*                                                                         *)
(* Powers are integers (one unit = one step of the power meter's           *)
(* resolution); the arithmetic of the servo (differences and sums) is      *)
(* exact on them.  Elapsed times are drawn from a two-value set because the *)
(* wall-clock time of an instrument call is not determined by the code.    *)
(***************************************************************************)
EXTENDS Integers, Sequences, FiniteSets, TLC

\* ------------------------------------------------------------------ bounds
MaxIterations == 3
MaxTolerance == 2
MaxReading == 2

Iterations == 0..MaxIterations
Tolerances == 0..MaxTolerance
\* what the output channel of the power meter can read back
OutReadings == (0 - MaxReading)..MaxReading
\* what the input channel of the power meter can read back
InReadings == {0, 1}
Targets == {0, 1}
Elapsed == {0, 1}
\* the expected_gain a caller passes to servo_power
Gains == {0, 1}

None == "None"

VARIABLES
    ps,       \* the PowerServo object: max_iterations, tolerance
    sv,       \* the locals of the running servo_power invocation
    vsg,      \* the generator: the level last applied by set_power
    obs,      \* observations of the servo kept for the properties
    flags,    \* USE_POWER_SERVO / USE_K18_POWER_SERVO of test_inputs.json
    vsa,      \* the analyzer: selected application and correction states
    md,       \* the VSA method being executed and its position
    mobs,     \* observations of the method kept for the properties
    cfg,      \* run_sweep: what it read from test_inputs.json and the calibration file
    run,      \* run_sweep: position, loop index, results, handles, report
    et,       \* the ET object and the locals of its running et_delay_evm
    opc,      \* a running write_command_opc and the instrument it talks to
    log       \* parse_console_output: the console text and the results

servoVars == <<ps, sv, vsg, obs>>
modeVars == <<flags, vsa, md, mobs>>
sweepVars == <<cfg, run>>
etVars == <<et>>
opcVars == <<opc>>
vars == <<ps, sv, vsg, obs, flags, vsa, md, mobs, cfg, run, et, opc, log>>

Abs(x) == IF x < 0 THEN 0 - x ELSE x

\* ------------------------------------------------------------- servo_power
\* the locals of servo_power before a call
SvIdle ==
    [pc |-> "idle", target_output |-> 0, input_power |-> 0, i |-> 0,
     servo_loops |-> 0, servo_settle_time |-> None, current_output |-> 0,
     ret |-> None]

ObsInit ==
    [n_meas |-> 0, n_set |-> 0, unverified |-> FALSE, broke |-> FALSE,
     first_set |-> None, prev_ret |-> None, prev_broke |-> FALSE,
     ref_gain |-> None, first_within |-> 0]

WithinTolerance_Inclusive(current, target, tol) == Abs(current - target) <= tol

\* power_servo.py:85  abs(current_output - target_output) < self.tolerance
WithinTolerance(current, target, tol) == Abs(current - target) < tol

LoopContinues_OneMore(i, max_iter) == i <= max_iter

\* power_servo.py:81  for i in range(self.max_iterations)
LoopContinues(i, max_iter) == i < max_iter

InitialPower_FromExpectedGain(target, measured_in, measured_out, expected_gain) ==
    target - expected_gain

\* power_servo.py:68-74  measured_gain = measured_out - measured_in;
\* input_power = target_output - measured_gain (expected_gain is not read)
InitialPower(target, measured_in, measured_out, expected_gain) ==
    target - (measured_out - measured_in)

LoopCount_ZeroBased(i) == i

\* power_servo.py:83  servo_loops = i + 1
LoopCount(i) == i + 1

\* power_servo.py:103  return servo_loops, servo_settle_time
ServoReturn(loops, settle) == <<loops, settle>>

\* vsg.set_power: the query either completes (the level is applied) or raises;
\* a query that raises may have reached the generator before the reply was lost
SetPowerOutcomes(level) ==
    {[ok |-> TRUE, level |-> level]} \cup
    {[ok |-> FALSE, level |-> l] : l \in {level, vsg.level}}

\* power_servo.py:67-79  reference measurement, initial estimate, first set_power
servo_power_init ==
    /\ sv.pc = "call"
    /\ \/ \* pm.measure() raises
          /\ sv' = [sv EXCEPT !.pc = "raised"]
          /\ UNCHANGED <<ps, vsg, obs, modeVars, sweepVars, etVars, opcVars, log>>
       \/ \E measured_in \in InReadings, measured_out \in OutReadings,
             expected_gain \in Gains :
            LET input_power == InitialPower(sv.target_output, measured_in,
                                            measured_out, expected_gain)
            IN \E o \in SetPowerOutcomes(input_power) :
                 /\ vsg' = [vsg EXCEPT !.level = o.level]
                 /\ sv' = [sv EXCEPT !.pc = IF o.ok THEN "loop" ELSE "raised",
                                     !.input_power = input_power,
                                     !.i = 0, !.servo_loops = 0,
                                     !.servo_settle_time = None]
                 /\ obs' = [obs EXCEPT !.n_set = IF o.ok THEN 1 ELSE 0,
                                       !.unverified = o.ok,
                                       !.first_set = IF o.ok THEN input_power ELSE None,
                                       !.ref_gain = IF o.ok THEN measured_out - measured_in
                                                            ELSE None]
                 /\ UNCHANGED <<ps, modeVars, sweepVars, etVars, opcVars, log>>

\* power_servo.py:81-91  one loop measurement and the convergence test
servo_power_measure ==
    /\ sv.pc = "loop"
    /\ LoopContinues(sv.i, ps.max_iterations)
    /\ \/ \* pm.measure() raises
          /\ sv' = [sv EXCEPT !.pc = "raised"]
          /\ UNCHANGED <<ps, vsg, obs, modeVars, sweepVars, etVars, opcVars, log>>
       \/ \E current_output \in OutReadings :
            LET loops == LoopCount(sv.i)
                conv == WithinTolerance(current_output, sv.target_output, ps.tolerance)
            IN /\ \E t \in Elapsed :
                    sv' = [sv EXCEPT
                             !.current_output = current_output,
                             !.servo_loops = loops,
                             !.servo_settle_time = IF conv THEN t ELSE @,
                             !.pc = IF conv THEN "returned" ELSE "measured",
                             !.ret = IF conv THEN ServoReturn(loops, t) ELSE @]
               /\ obs' = [obs EXCEPT
                            !.n_meas = @ + 1, !.unverified = FALSE,
                            !.broke = conv,
                            !.first_within =
                                IF @ = 0 /\ Abs(current_output - sv.target_output) < ps.tolerance
                                  THEN obs.n_meas + 1 ELSE @]
               /\ UNCHANGED <<ps, vsg, modeVars, sweepVars, etVars, opcVars, log>>

\* a correction that forgets the accumulated input power
Adjusted_Absolute(input_power, target_output, current_output) ==
    target_output - current_output

\* power_servo.py:93-94  adjustment = target_output - current_output;
\*                        input_power += adjustment
Adjusted(input_power, target_output, current_output) ==
    input_power + (target_output - current_output)

\* power_servo.py:93-95  proportional correction and set_power
servo_power_adjust ==
    /\ sv.pc = "measured"
    /\ LET input_power == Adjusted(sv.input_power, sv.target_output, sv.current_output)
       IN \E o \in SetPowerOutcomes(input_power) :
            /\ vsg' = [vsg EXCEPT !.level = o.level]
            /\ sv' = [sv EXCEPT !.pc = IF o.ok THEN "loop" ELSE "raised",
                                !.input_power = input_power,
                                !.i = @ + 1]
            /\ obs' = [obs EXCEPT !.n_set = IF o.ok THEN @ + 1 ELSE @,
                                  !.unverified = IF o.ok THEN TRUE ELSE @]
            /\ UNCHANGED <<ps, modeVars, sweepVars, etVars, opcVars, log>>

\* power_servo.py:96-103  the for loop's else branch: exhausted, warn, return
servo_power_exhausted ==
    /\ sv.pc = "loop"
    /\ ~LoopContinues(sv.i, ps.max_iterations)
    /\ \E t \in Elapsed :
         sv' = [sv EXCEPT !.servo_settle_time = t, !.pc = "returned",
                          !.ret = ServoReturn(sv.servo_loops, t)]
    /\ UNCHANGED <<ps, vsg, obs, modeVars, sweepVars, etVars, opcVars, log>>

servo_power ==
    \/ servo_power_init
    \/ servo_power_measure
    \/ servo_power_adjust
    \/ servo_power_exhausted

\* --------------------------------------------- the servo called on its own
\* a caller invokes power_servo.servo_power(freq_ghz, target_output, expected_gain)
ServoCall ==
    /\ sv.pc = "idle"
    /\ md.status = "idle"
    /\ \E t \in Targets : sv' = [SvIdle EXCEPT !.pc = "call", !.target_output = t]
    /\ obs' = [ObsInit EXCEPT !.prev_ret = obs.prev_ret, !.prev_broke = obs.prev_broke]
    /\ UNCHANGED <<ps, vsg, modeVars, sweepVars, etVars, opcVars, log>>

\* the caller takes the returned tuple (or the exception); the locals are gone
ServoDone ==
    /\ sv.pc \in {"returned", "raised"}
    /\ md.status = "idle"
    /\ obs' = [ObsInit EXCEPT
                 !.prev_ret = IF sv.pc = "returned" THEN sv.ret ELSE obs.prev_ret,
                 !.prev_broke = IF sv.pc = "returned" THEN obs.broke ELSE obs.prev_broke]
    /\ sv' = SvIdle
    /\ UNCHANGED <<ps, vsg, modeVars, sweepVars, etVars, opcVars, log>>

\* ---------------------------------------------------------- the analyzer
\* vsa.py:95-135  the analyzer as VSA.__init__ leaves it: reset, setup file
\* loaded, Amplifier application selected, generator connection and control
\* on, direct DPD off
VsaAfterInit ==
    [app |-> "Amplifier", meas |-> "EVM",
     gen_conn |-> TRUE, gen_cont |-> TRUE,
     amam |-> FALSE, ampm |-> FALSE,
     ddpd |-> FALSE, ddpd_appl |-> FALSE,
     mdpd |-> FALSE, wav |-> "REF"]

\* what a SCPI command that the analyzer executed does to its state
Effect(cmd, a) ==
    CASE cmd = "INST:SEL Amplifier"      -> [a EXCEPT !.app = "Amplifier"]
      [] cmd = "INST:SEL 5G NR"          -> [a EXCEPT !.app = "5G NR"]
      [] cmd = "CONF:NR5G:MEAS EVM"      -> [a EXCEPT !.meas = "EVM"]
      [] cmd = "CONF:NR5G:MEAS ACLR"     -> [a EXCEPT !.meas = "ACLR"]
      [] cmd = "CONF:GEN:CONN:STAT ON"   -> [a EXCEPT !.gen_conn = TRUE]
      [] cmd = "CONF:GEN:CONN:STAT OFF"  -> [a EXCEPT !.gen_conn = FALSE]
      [] cmd = "CONF:GEN:CONT:STAT ON"   -> [a EXCEPT !.gen_cont = TRUE]
      [] cmd = "CONF:GEN:CONT:STAT OFF"  -> [a EXCEPT !.gen_cont = FALSE]
      [] cmd = "CONF:DPD:AMAM:STAT ON"   -> [a EXCEPT !.amam = TRUE]
      [] cmd = "CONF:DPD:AMPM:STAT ON"   -> [a EXCEPT !.ampm = TRUE]
      [] cmd = "CONF:DDPD:STAT ON"       -> [a EXCEPT !.ddpd = TRUE]
      [] cmd = "CONF:DDPD:STAT OFF"      -> [a EXCEPT !.ddpd = FALSE]
      [] cmd = "CONF:DDPD:APPL:STAT ON"  -> [a EXCEPT !.ddpd_appl = TRUE]
      [] cmd = "CONF:DDPD:APPL:STAT OFF" -> [a EXCEPT !.ddpd_appl = FALSE]
      [] cmd = "CONF:MDPD:STAT ON"       -> [a EXCEPT !.mdpd = TRUE]
      [] cmd = "CONF:MDPD:WAV:SEL MDPD"  -> [a EXCEPT !.wav = "MDPD"]
      [] cmd = "CONF:MDPD:WAV:SEL REF"   -> [a EXCEPT !.wav = "REF"]
      [] OTHER                           -> a

\* the four ways a VSA method talks to the instrument
Q(cmd)   == [op |-> "query", cmd |-> cmd]        \* self.instr.query(cmd; *OPC?)
W(cmd)   == [op |-> "write", cmd |-> cmd]        \* self.instr.write(cmd)
OPC(cmd) == [op |-> "opc", cmd |-> cmd]          \* self.write_command_opc(cmd)
QF(cmd)  == [op |-> "queryFloat", cmd |-> cmd]   \* self.queryFloat(cmd)
ExtServo == [op |-> "servo_power", cmd |-> ""]   \* power_servo.servo_power(...)

\* the text that stands for a parameter in a command string: an f-string puts
\* the value of the expression between the braces there, a plain string
\* literal is sent as written, braces and all
FString(value)    == [interpolated |-> TRUE, value |-> value]
PlainString(text) == [interpolated |-> FALSE, text |-> text]

\* self.instr.query of a command string that carries a parameter
QA(cmd, arg) == [op |-> "query", cmd |-> cmd, arg |-> arg]

\* vsa.py:246-256  the K18 servo inlined in _run_servos
K18Servo ==
    << Q("INST:SEL Amplifier"), Q("CONF:GEN:CONN:STAT ON"),
       Q("CONF:GEN:CONT:STAT ON"), Q("CONF:GEN:POW:LEV:STAT ON"),
       QA("CONF:GEN:POW:LEV:TARG", PlainString("{target_output:.2f}")),
       QA("CONF:GEN:POW:LEV:ITER", PlainString("{servo_iterations}")),
       QA("CONF:GEN:POW:LEV:TOL", PlainString("{0.1}")),
       Q("CONF:GEN:POW:LEV:STAR"),
       Q("INST:SEL 5G NR") >>

\* vsa.py:232-257  _run_servos: the external servo, then the K18 servo
RunServos(use_power_servo, use_k18_power_servo) ==
    (IF use_power_servo THEN <<ExtServo>> ELSE <<>>) \o
    (IF use_k18_power_servo THEN K18Servo ELSE <<>>)

\* a measurement block that reads the ACLR result off the EVM trigger
Measurement_OneTrigger ==
    << Q("INST:SEL 5G NR"), Q("CONF:NR5G:MEAS EVM"), Q("INIT:IMM"),
       QF("FETC:POW"), QF("FETC:EVM"),
       W("CONF:NR5G:MEAS ACLR"), Q("CALC:MARK:FUNC:POW:RES? ACP") >>

\* vsa.py:280-294  EVM and power, then ACLR (the same in all four modes)
Measurement ==
    << Q("INST:SEL 5G NR"), Q("CONF:NR5G:MEAS EVM"), Q("INIT:IMM"),
       QF("FETC:POW"), QF("FETC:EVM"),
       W("CONF:NR5G:MEAS ACLR"), W("INIT:IMM;*WAI"), Q("CALC:MARK:FUNC:POW:RES? ACP") >>

\* vsa.py:183-190  VSA.configure
ConfigureCmds ==
    << Q("INST:SEL 5G NR"), Q("SENS:FREQ:CENT"), W("DISP:RLEV:OFFS"),
       Q("CONF:NR5G:MEAS EVM") >>

\* vsa.py:323-350  polynomial DPD: Amplifier application, update, enable
PolySetup ==
    << OPC("INST:SEL Amplifier"), Q("INIT:IMM"), Q("CONF:DPD:UPD"),
       Q("CONF:DPD:AMAM:STAT ON"), Q("CONF:DPD:AMPM:STAT ON") >>

\* vsa.py:395-409  what perform_polynomial_dpd does after its measurement
\* (the block that returned to the 5G NR application is commented out)
PolyTeardown == << Q("CONF:NR5G:MEAS EVM") >>

\* vsa.py:429-442  direct DPD: DPD context, then iterative training
DirectSetup ==
    << OPC("INST:SEL Amplifier"), Q("CONF:GEN:CONN:STAT ON"),
       Q("CONF:GEN:CONT:STAT ON"), Q("CONF:SETT"), Q("CONF:REFS:CGW:READ"),
       Q("CONF:DDPD:STAT ON"), Q("CONF:DDPD:TRAD"), Q("CONF:DDPD:COUN"),
       Q("CONF:DDPD:STAR"), Q("CONF:DDPD:APPL:STAT ON"), Q("CONF:DDPD:WAV:UPD") >>

DirectTeardown_StaysInAmplifier ==
    << Q("INST:SEL Amplifier"), Q("CONF:DDPD:APPL:STAT OFF"),
       Q("CONF:DDPD:STAT OFF"), Q("CONF:NR5G:MEAS EVM"),
       Q("CONF:GEN:CONT:STAT OFF"), Q("CONF:GEN:CONN:STAT OFF") >>

\* vsa.py:481-488  direct DPD teardown
DirectTeardown ==
    << Q("INST:SEL Amplifier"), Q("CONF:DDPD:APPL:STAT OFF"),
       Q("CONF:DDPD:STAT OFF"), Q("INST:SEL 5G NR"), Q("CONF:NR5G:MEAS EVM"),
       Q("CONF:GEN:CONT:STAT OFF"), Q("CONF:GEN:CONN:STAT OFF") >>

\* vsa.py:511-540  GMP: DPD context, direct DPD as base, memory-polynomial fit
GmpSetup ==
    << OPC("INST:SEL Amplifier"), Q("CONF:GEN:CONN:STAT ON"),
       Q("CONF:GEN:CONT:STAT ON"), Q("CONF:SETT"), Q("CONF:REFS:CGW:READ"),
       OPC("INST:SEL Amplifier"),
       Q("CONF:DDPD:STAT ON"), Q("CONF:DDPD:TRAD"), Q("CONF:DDPD:COUN"),
       Q("CONF:DDPD:STAR"),
       Q("CONF:MDPD:STAT ON"), Q("CALC:MDPD:MOD"), Q("CONF:GMP:LAG:ORD:XTER"),
       Q("CONF:GMP:LEAD:ORD:XTER"), Q("CONF:MDPD:ITER"), Q("CALC:MDPD:MOD"),
       Q("CONF:MDPD:WAV:UPD"), Q("CONF:MDPD:WAV:SEL MDPD") >>

\* vsa.py:584-598  GMP teardown
GmpTeardown ==
    << Q("CONF:NR5G:MEAS EVM"),
       Q("INST:SEL Amplifier"), Q("CONF:MDPD:WAV:SEL REF"),
       Q("CONF:DDPD:APPL:STAT OFF"), Q("INST:SEL 5G NR"), Q("CONF:NR5G:MEAS EVM"),
       Q("CONF:GEN:CONT:STAT OFF"), Q("CONF:GEN:CONN:STAT OFF") >>

MeasureModes ==
    {"measure_evm", "perform_polynomial_dpd", "perform_direct_dpd", "perform_gmp_dpd"}
DpdModes == MeasureModes \ {"measure_evm"}
Methods == MeasureModes \cup {"configure"}

\* the instrument calls of a VSA method, in program order
Program(m) ==
    LET servos == RunServos(flags.use_power_servo, flags.use_k18_power_servo)
    IN CASE m = "configure"              -> ConfigureCmds
         [] m = "measure_evm"            -> servos \o Measurement
         [] m = "perform_polynomial_dpd" -> PolySetup \o servos \o Measurement \o PolyTeardown
         [] m = "perform_direct_dpd"     -> DirectSetup \o servos \o Measurement \o DirectTeardown
         [] m = "perform_gmp_dpd"        -> GmpSetup \o servos \o Measurement \o GmpTeardown

\* the command that turns a mode's correction on
EnablesCorrection(m, cmd) ==
    \/ m = "perform_polynomial_dpd" /\ cmd = "CONF:DPD:AMAM:STAT ON"
    \/ m = "perform_direct_dpd" /\ cmd = "CONF:DDPD:STAT ON"
    \/ m = "perform_gmp_dpd" /\ cmd = "CONF:DDPD:STAT ON"

\* vsa.py:437-442  the commands of the iterative direct-DPD training
TrainingCmds ==
    {"CONF:DDPD:STAT ON", "CONF:DDPD:TRAD", "CONF:DDPD:COUN", "CONF:DDPD:STAR",
     "CONF:DDPD:APPL:STAT ON", "CONF:DDPD:WAV:UPD"}

\* the training commands among the instrument calls of a method, in order
RECURSIVE TrainingOf(_)
TrainingOf(prog) ==
    IF prog = <<>> THEN <<>>
    ELSE (IF Head(prog).cmd \in TrainingCmds THEN <<Head(prog).cmd>> ELSE <<>>)
             \o TrainingOf(Tail(prog))

MdIdle == [mode |-> None, pc |-> 0, status |-> "idle", polling |-> FALSE,
           target_output |-> 0]

\* no measurement has been triggered in this call
NoTrigger ==
    [id |-> 0, app |-> "", meas |-> "", after_training |-> FALSE,
     after_servo |-> FALSE, after_evm |-> FALSE]

MobsInit ==
    [entered_dpd |-> FALSE, corr_enabled |-> FALSE, failed |-> FALSE,
     null_fetch |-> FALSE, evm_fetched |-> FALSE, aclr_fetched |-> FALSE,
     servo_ran |-> FALSE, servo_exhausted |-> FALSE, after |-> None,
     servo_loops |-> 0, ext_loops |-> 0, k18_loops |-> 0, k18_sent |-> <<>>,
     training |-> <<>>,
     trig |-> NoTrigger, pow_src |-> NoTrigger, evm_src |-> NoTrigger,
     aclr_src |-> NoTrigger]

\* how many levelling iterations the analyzer makes when its K18 servo is
\* started; the analyzer does not report the number and the code never asks
K18Loops == {1, 2}

\* vsa.py:253  CONF:GEN:POW:LEV:STAR: the analyzer runs its own servo
StartsK18(c, m) ==
    IF c.cmd = "CONF:GEN:POW:LEV:STAR"
      THEN {[m EXCEPT !.k18_loops = k] : k \in K18Loops}
      ELSE {m}

\* vsa.py:235-257  _run_servos returns the servo_loops that servo_power
\* returned (0 without the external servo); the K18 servo adds nothing to it
ReportedLoops(servo_loops, k18_loops) == servo_loops

Running == md.status = "running"
AtEnd == Running /\ md.pc > Len(Program(md.mode))
Cur == Program(md.mode)[md.pc]

\* the running method has made this instrument call (the calls before its
\* position returned)
Sent(cmd) == \E i \in 1..(md.pc - 1) : Program(md.mode)[i].cmd = cmd

\* vsa.py:345, 440, 525  the commands that compute a correction: the
\* polynomial update and the start of the iterative direct-DPD run
TrainStartCmds == {"CONF:DPD:UPD", "CONF:DDPD:STAR"}

\* vsa.py:283, 292  the commands that trigger a measurement
TriggerCmds == {"INIT:IMM", "INIT:IMM;*WAI"}

\* the stages of the running method that are over: its training command has
\* returned (a mode without training has none to wait for), the servos that
\* the flags select have returned
TrainingOver == md.mode \in DpdModes => \E c \in TrainStartCmds : Sent(c)
ServosOver(m) ==
    /\ flags.use_power_servo => m.servo_ran
    /\ flags.use_k18_power_servo => m.k18_loops > 0

\* the analyzer takes a new capture in the application and measurement mode
\* it is in when the trigger arrives
Triggered(m) ==
    [id |-> m.trig.id + 1, app |-> vsa.app, meas |-> vsa.meas,
     after_training |-> TrainingOver, after_servo |-> ServosOver(m),
     after_evm |-> m.evm_fetched]

\* what of the call the properties keep: a switch into the Amplifier
\* application, the correction being enabled, the fetches
Observe(c, m) ==
    [m EXCEPT
       !.entered_dpd = @ \/ c.cmd = "INST:SEL Amplifier",
       !.corr_enabled = @ \/ EnablesCorrection(md.mode, c.cmd),
       !.evm_fetched = @ \/ c.cmd = "FETC:EVM",
       !.aclr_fetched = @ \/ c.cmd = "CALC:MARK:FUNC:POW:RES? ACP",
       !.k18_sent = IF "arg" \in DOMAIN c THEN Append(@, c.arg) ELSE @,
       !.training = IF c.cmd \in TrainingCmds THEN Append(@, c.cmd) ELSE @,
       !.trig = IF c.cmd \in TriggerCmds THEN Triggered(m) ELSE @,
       !.pow_src = IF c.cmd = "FETC:POW" THEN m.trig ELSE @,
       !.evm_src = IF c.cmd = "FETC:EVM" THEN m.trig ELSE @,
       !.aclr_src = IF c.cmd = "CALC:MARK:FUNC:POW:RES? ACP" THEN m.trig ELSE @]

\* a caller starts a method of the VSA object
CallMethod ==
    /\ md.status \in {"idle", "returned"}
    /\ sv.pc = "idle"
    /\ \E m \in Methods :
       \E target_output \in IF m \in MeasureModes THEN Targets ELSE {0} :
         /\ md' = [mode |-> m, pc |-> 1, status |-> "running", polling |-> FALSE,
                   target_output |-> target_output]
         /\ mobs' = [MobsInit EXCEPT !.after = md.mode]
    /\ UNCHANGED <<sweepVars, servoVars, flags, vsa, etVars, opcVars, log>>

\* iSocket.py:58-88  instr.query / instr.write: the command is executed and
\* the method goes on, or the call raises and the method's except block logs
\* and re-raises; a call that raised may still have reached the instrument
QueryOrWrite ==
    /\ Running /\ ~AtEnd
    /\ Cur.op \in {"query", "write"}
    /\ \/ /\ vsa' = Effect(Cur.cmd, vsa)
          /\ md' = [md EXCEPT !.pc = @ + 1]
          /\ mobs' \in StartsK18(Cur, Observe(Cur, mobs))
       \/ /\ vsa' \in {vsa, Effect(Cur.cmd, vsa)}
          /\ md' = [md EXCEPT !.status = "raised"]
          /\ mobs' = [mobs EXCEPT !.failed = TRUE]
    /\ UNCHANGED <<sweepVars, servoVars, flags, etVars, opcVars, log>>

\* vsa.py:218-222  queryFloat: a failing query is swallowed and None returned
queryFloat ==
    /\ Running /\ ~AtEnd
    /\ Cur.op = "queryFloat"
    /\ md' = [md EXCEPT !.pc = @ + 1]
    /\ \/ mobs' = Observe(Cur, mobs)
       \/ mobs' = [Observe(Cur, mobs) EXCEPT !.failed = TRUE, !.null_fetch = TRUE]
    /\ UNCHANGED <<sweepVars, servoVars, flags, vsa, etVars, opcVars, log>>

\* vsa.py:208-210  write_command_opc: *ESE 1, *SRE 32, then the command
write_command_opc ==
    /\ Running /\ ~AtEnd
    /\ Cur.op = "opc" /\ ~md.polling
    /\ \/ /\ vsa' = Effect(Cur.cmd, vsa)
          /\ md' = [md EXCEPT !.polling = TRUE]
          /\ mobs' = Observe(Cur, mobs)
       \/ /\ vsa' \in {vsa, Effect(Cur.cmd, vsa)}
          /\ md' = [md EXCEPT !.status = "raised"]
          /\ mobs' = [mobs EXCEPT !.failed = TRUE]
    /\ UNCHANGED <<sweepVars, servoVars, flags, etVars, opcVars, log>>

\* vsa.py:211-212  the poll of *ESR?: bit 0 set ends the wait, a failing
\* query raises (bit 0 clear: sleep and poll again, nothing changes)
opc_poll ==
    /\ Running /\ ~AtEnd
    /\ Cur.op = "opc" /\ md.polling
    /\ \/ /\ md' = [md EXCEPT !.pc = @ + 1, !.polling = FALSE]
          /\ UNCHANGED mobs
       \/ /\ md' = [md EXCEPT !.status = "raised", !.polling = FALSE]
          /\ mobs' = [mobs EXCEPT !.failed = TRUE]
    /\ UNCHANGED <<sweepVars, servoVars, flags, vsa, etVars, opcVars, log>>

\* vsa.py:236-240  _run_servos calls power_servo.servo_power
run_servos_call ==
    /\ Running /\ ~AtEnd
    /\ Cur.op = "servo_power"
    /\ sv.pc = "idle"
    /\ sv' = [SvIdle EXCEPT !.pc = "call", !.target_output = md.target_output]
    /\ obs' = ObsInit
    /\ UNCHANGED <<ps, vsg, modeVars, sweepVars, etVars, opcVars, log>>

ServoOutcome_RaisesWhenExhausted(converged) ==
    IF converged THEN "running" ELSE "raised"

\* power_servo.py:96-103 and vsa.py:238-241  servo_power returns its tuple
\* whether the loop broke or ran out (the else branch only logs a warning),
\* and _run_servos goes on
ServoOutcome(converged) == "running"

run_servos_resume ==
    /\ Running /\ ~AtEnd
    /\ Cur.op = "servo_power"
    /\ sv.pc = "returned"
    /\ md' = [md EXCEPT
                !.status = ServoOutcome(obs.broke),
                !.pc = IF ServoOutcome(obs.broke) = "running" THEN @ + 1 ELSE @]
    /\ mobs' = [mobs EXCEPT !.servo_ran = TRUE, !.servo_exhausted = ~obs.broke,
                             !.servo_loops = sv.ret[1],
                             !.ext_loops = obs.n_meas]
    /\ sv' = SvIdle
    /\ obs' = ObsInit
    /\ UNCHANGED <<sweepVars, ps, vsg, flags, vsa, etVars, opcVars, log>>

\* an instrument call inside servo_power raised: nothing in _run_servos
\* catches it, the method's except block logs and re-raises
run_servos_raise ==
    /\ Running /\ ~AtEnd
    /\ Cur.op = "servo_power"
    /\ sv.pc = "raised"
    /\ md' = [md EXCEPT !.status = "raised"]
    /\ mobs' = [mobs EXCEPT !.failed = TRUE]
    /\ sv' = SvIdle
    /\ obs' = ObsInit
    /\ UNCHANGED <<sweepVars, ps, vsg, flags, vsa, etVars, opcVars, log>>

\* the method's return statement
MethodReturn ==
    /\ AtEnd
    /\ md' = [md EXCEPT !.status = "returned"]
    /\ UNCHANGED <<sweepVars, servoVars, flags, vsa, mobs, etVars, opcVars, log>>

\* -------------------------------------------------------------- run_sweep
\* Frequencies are counted in half MHz above the bottom of the band, so that
\* a sweep step below the 1 MHz resolution of the calibration table can be
\* requested; calibration keys are whole MHz.
MaxStart == 1
MaxStop == 4
MaxStep == 3
MaxKey == 2

\* main.py:104  np.arange(start, stop + step, step)
Arange(start, stop, step) ==
    LET span == stop + step - start
        n == IF span <= 0 THEN 0 ELSE (span + step - 1) \div step
    IN [j \in 1..n |-> start + (j - 1) * step]

\* main.py:105,139  round(freq / 1e9, 3): to the nearest MHz, a tie to the
\* even one
Round3(f) ==
    LET lo == f \div 2
    IN IF f % 2 = 0 THEN lo
       ELSE IF lo % 2 = 0 THEN lo ELSE lo + 1

\* vsa.py:262-264  the parameters of VSA.measure_evm
MeasureEvmParams ==
    {"freq_str", "vsa_offset", "target_output", "servo_iterations", "freq_ghz",
     "expected_gain", "power_servo", "USE_POWER_SERVO", "USE_K18_POWER_SERVO"}

\* main.py:169-171  the keyword arguments of the call vsa.measure_evm(..., et=et)
MeasureEvmKeywords == {"et"}

\* a Python call binds only if the function has a parameter for every keyword
\* argument; otherwise the call itself raises TypeError and the body never runs
Binds(params, keywords) == keywords \subseteq params

\* main.py:123-125  vsg = VSG(); vsa = VSA(); pm = PowerMeter()
ConstructionOrder_AnalyzerFirst == <<"VSA", "VSG", "PowerMeter">>

ConstructionOrder == <<"VSG", "VSA", "PowerMeter">>

\* the sockets the three constructors open (VSA.__init__ opens two)
Sockets == {"vsg", "vsa", "vsa_instr", "pm"}

\* the state of run_sweep when its instruments are constructed
RunInit ==
    [pc |-> "loop", k |-> 1, results |-> <<>>, matched_frequencies |-> <<>>,
     closed |-> {}, report |-> None, error |-> None, failed |-> FALSE,
     started |-> <<>>, mode_failed |-> FALSE, et_runs |-> <<>>,
     ctor |-> Len(ConstructionOrder) + 1, opened |-> Sockets, sent |-> TRUE]

\* vsg.py:53-70, vsa.py:70-87  the values the constructors accept
Supported(signal_bandwidth, frame_type) ==
    /\ signal_bandwidth \in {"10MHz", "100MHz"}
    /\ frame_type \in {"full_frame", "first_slot"}

SignalBandwidths == {"10MHz", "100MHz", "20MHz"}
FrameTypes == {"full_frame", "first_slot", "half_slot"}

\* what a constructor does, in program order
Validate   == [op |-> "validate"]    \* the two if/elif/else chains
Open(sock) == [op |-> "open", sock |-> sock]   \* bench().XXX_start()
Setup      == [op |-> "setup"]       \* the reset and setup queries

\* vsg.py:49-90, vsa.py:59-136, power_meter.py:34-38
ConstructorSteps(class) ==
    CASE class = "VSG"        -> << Validate, Open("vsg"), Setup >>
      [] class = "VSA"        -> << Open("vsa"), Validate, Open("vsa_instr"), Setup >>
      [] class = "PowerMeter" -> << Open("pm") >>

\* the ways a constructor can end from one of its steps on: st holds the
\* sockets connected and whether a command has gone out.  An unsupported
\* value raises ValueError; bench.XXX_start (iSocket.open: connect, then
\* *IDN?) and every setup query may raise, a query possibly after the
\* command left
RECURSIVE Construct(_, _)
Construct(steps, st) ==
    IF steps = <<>> THEN {[ok |-> TRUE, opened |-> st.opened, sent |-> st.sent,
                           error |-> None]}
    ELSE LET s == Head(steps)
             Fails(opened, sent, error) ==
                 [ok |-> FALSE, opened |-> opened, sent |-> sent, error |-> error]
         IN CASE s.op = "validate" ->
                   IF Supported(cfg.signal_bandwidth, cfg.frame_type)
                     THEN Construct(Tail(steps), st)
                     ELSE {Fails(st.opened, st.sent, "ValueError")}
              [] s.op = "open" ->
                   {Fails(st.opened, st.sent, "OSError"),
                    Fails(st.opened \cup {s.sock}, st.sent, "OSError"),
                    Fails(st.opened \cup {s.sock}, TRUE, "OSError")}
                   \cup Construct(Tail(steps),
                                  [opened |-> st.opened \cup {s.sock}, sent |-> TRUE])
              [] s.op = "setup" ->
                   {Fails(st.opened, st.sent, "OSError"),
                    Fails(st.opened, TRUE, "OSError")}
                   \cup Construct(Tail(steps), [st EXCEPT !.sent = TRUE])

\* main.py:123-129  one constructor call of run_sweep.  The calls stand
\* before the try block: an exception of a constructor leaves run_sweep at
\* once, without the finally block.  PowerServo and ET only store references.
sweep_construct ==
    /\ run.pc = "construct"
    /\ \E o \in Construct(ConstructorSteps(ConstructionOrder[run.ctor]),
                          [opened |-> run.opened, sent |-> run.sent]) :
         run' = [run EXCEPT
                   !.opened = o.opened, !.sent = o.sent, !.error = o.error,
                   !.ctor = IF o.ok THEN @ + 1 ELSE @,
                   !.pc = IF ~o.ok THEN "unhandled"
                          ELSE IF run.ctor = Len(ConstructionOrder) THEN "loop"
                          ELSE "construct"]
    /\ UNCHANGED <<servoVars, modeVars, cfg, etVars, opcVars, log>>

freqs == Arange(cfg.start, cfg.stop, cfg.step)

AtPc(p) == run.pc = p

OnException_NextFrequency(here) == "loop"

\* main.py:134,329  the try block has no except clause: an exception raised
\* anywhere in the loop leaves the loop and enters the finally block
OnException(here) == "close_vsg"

\* main.py:138-147  the loop head: end of the list, a frequency without
\* calibration entry (skipped), or a frequency to process
sweep_loop ==
    /\ AtPc("loop")
    /\ IF run.k > Len(freqs)
         THEN run' = [run EXCEPT !.pc = "close_vsg"]
         ELSE LET freq_ghz == Round3(freqs[run.k])
              IN IF freq_ghz \notin cfg.cal_dict
                   THEN run' = [run EXCEPT !.k = @ + 1]
                   ELSE run' = [run EXCEPT
                                  !.matched_frequencies = Append(@, freq_ghz),
                                  !.pc = "pm_configure"]
    /\ UNCHANGED <<servoVars, modeVars, cfg, etVars, opcVars, log>>

\* an instrument call made by run_sweep itself: it completes, or it raises and
\* the exception leaves the try block
SweepCall(here, next) ==
    /\ AtPc(here)
    /\ \/ run' = [run EXCEPT !.pc = next]
       \/ run' = [run EXCEPT !.pc = OnException(here), !.error = "instrument",
                             !.failed = TRUE]
    /\ UNCHANGED <<servoVars, modeVars, cfg, etVars, opcVars, log>>

\* main.py:157  pm.configure(freq, input_offset, output_offset)
sweep_pm_configure == SweepCall("pm_configure", "vsg_configure")

\* main.py:158  vsg.configure(freq, target_output - expected_gain, vsg_offset)
sweep_vsg_configure == SweepCall("vsg_configure", "vsa_configure")

\* main.py:159  vsa.configure(freq, vsa_offset)
sweep_vsa_configure ==
    /\ AtPc("vsa_configure")
    /\ md.status \in {"idle", "returned"}
    /\ md' = [mode |-> "configure", pc |-> 1, status |-> "running", polling |-> FALSE,
              target_output |-> 0]
    /\ mobs' = [MobsInit EXCEPT !.after = md.mode]
    /\ run' = [run EXCEPT !.pc = "in_vsa_configure"]
    /\ UNCHANGED <<servoVars, flags, vsa, cfg, etVars, opcVars, log>>

\* vsa.configure returned, or its exception leaves the try block
sweep_vsa_configured ==
    /\ AtPc("in_vsa_configure")
    /\ \/ /\ md.status = "returned"
          /\ run' = [run EXCEPT !.pc = "pm_measure"]
       \/ /\ md.status = "raised"
          /\ run' = [run EXCEPT !.pc = OnException("in_vsa_configure"),
                                !.error = "instrument", !.failed = TRUE]
    /\ UNCHANGED <<servoVars, modeVars, cfg, etVars, opcVars, log>>

\* main.py:164  corrected_input, corrected_output = pm.measure()
sweep_pm_measure == SweepCall("pm_measure", "measure_evm")

\* main.py:168-171  the call of vsa.measure_evm with the keyword et: the
\* call does not bind, TypeError leaves the try block, and the rest of the
\* loop body (main.py:173-327) is not reached
sweep_measure_evm ==
    /\ AtPc("measure_evm")
    /\ IF Binds(MeasureEvmParams, MeasureEvmKeywords)
         THEN run' = [run EXCEPT !.pc = "in_measure_evm",
                                 !.started = Append(@, <<run.k, "measure_evm">>)]
         ELSE run' = [run EXCEPT !.pc = OnException("measure_evm"),
                                 !.error = "TypeError", !.mode_failed = TRUE]
    /\ UNCHANGED <<servoVars, modeVars, cfg, etVars, opcVars, log>>

\* a close in the finally block: the handle is closed, or close raises and
\* the exception leaves the finally block
SweepClose(here, handle, next) ==
    /\ AtPc(here)
    /\ \/ run' = [run EXCEPT !.pc = next, !.closed = @ \cup {handle}]
       \/ run' = [run EXCEPT !.pc = "exit", !.error = "close", !.failed = TRUE]
    /\ UNCHANGED <<servoVars, modeVars, cfg, etVars, opcVars, log>>

\* main.py:333  vsg.close()
sweep_close_vsg == SweepClose("close_vsg", "vsg", "close_vsa")
\* main.py:334  vsa.close()
sweep_close_vsa == SweepClose("close_vsa", "vsa", "close_pm")
\* main.py:335  pm.close()
sweep_close_pm == SweepClose("close_pm", "pm", "save")

\* main.py:340-343  the results collected so far are written to the report
sweep_save ==
    /\ AtPc("save")
    /\ run' = [run EXCEPT !.pc = "exit", !.report = run.results]
    /\ UNCHANGED <<servoVars, modeVars, cfg, etVars, opcVars, log>>

\* ------------------------------------------------------------ et_delay_evm
\* Delays are integers (one unit = one step of the delay resolution).
MaxShifts == 2

\* the two ET classes of the repository; main.py:24 imports the second
ETVariants == {"src/et.py", "src/src/measurements/et.py"}
Imported == "src/src/measurements/et.py"

StartDelays == {0, 1}
DelaySteps == {1, 2}
EvmReadings == {0, 1}

\* the ET object of a variant with et_delay_shifts = shifts, no call running
EtIdle(variant, shifts) ==
    [variant |-> variant, et_delay_shifts |-> shifts, pc |-> "idle",
     start_delay |-> 0, step |-> 0, i |-> 0, current_delay |-> 0,
     delays |-> <<>>, evms |-> <<>>, trace |-> <<>>,
     disable_sent |-> FALSE, instr_failed |-> FALSE, pending |-> {}]

\* et.py:83, 86  the delay and the trigger are sent with write(), which returns
\* once the bytes are in the socket (iSocket.py:77-88); src/et.py:56, 58 sends
\* them with query(...; *OPC?), which returns with the instrument's reply
WaitsForOPC(variant) == variant = "src/et.py"

\* the commands an instrument may still be executing after the core sent cmd:
\* a command sent with *OPC? is answered when it and all before it are done,
\* a written one is executing until the instrument is through with it
SentTo(pending, cmd, waits) == IF waits THEN {} ELSE pending \cup {cmd}

\* vsa.py:172-176  VSA.get_evm returns evm_value, one float
GetEvmReturns == "float"

\* et.py:89  evm, evm_time = self.vsa.get_evm()   (src/et.py:59: evm = ...)
Destructures(variant) == variant = "src/src/measurements/et.py"

\* the assignment of get_evm's result binds unless a float is unpacked into
\* two names (TypeError: cannot unpack non-iterable float object)
AssignsEvm(variant) == Destructures(variant) => GetEvmReturns = "pair"

\* et.py:79  for i in range(self.et_delay_shifts + 1)
InSweep(i, shifts) == i < shifts + 1

AfterStep(i, shifts) == IF InSweep(i, shifts) THEN "set_delay" ELSE "disable"

\* a caller invokes et.et_delay_evm(start_delay, step)
ETCall ==
    /\ et.pc = "idle"
    /\ \E start_delay \in StartDelays, step \in DelaySteps :
         et' = [EtIdle(et.variant, et.et_delay_shifts) EXCEPT
                  !.start_delay = start_delay, !.step = step,
                  !.current_delay = start_delay,
                  !.pc = AfterStep(0, et.et_delay_shifts)]
    /\ UNCHANGED <<servoVars, modeVars, sweepVars, opcVars, log>>

\* an instrument call of et_delay_evm raised: the except block logs and re-raises
EtRaised(cmd) ==
    [et EXCEPT !.pc = "raised", !.instr_failed = TRUE, !.trace = Append(@, cmd)]

\* et.py:83  the delay is set on the generator
et_set_delay ==
    /\ et.pc = "set_delay"
    /\ LET cmd == <<"delay", et.current_delay>>
       IN \/ et' = [et EXCEPT !.pc = "trigger", !.trace = Append(@, cmd),
                               !.pending = SentTo(@, "delay", WaitsForOPC(et.variant))]
          \/ et' = EtRaised(cmd)
    /\ UNCHANGED <<servoVars, modeVars, sweepVars, opcVars, log>>

\* et.py:86  INIT:IMM on the analyzer
et_trigger ==
    /\ et.pc = "trigger"
    /\ LET cmd == <<"trigger", 0>>
       IN \/ et' = [et EXCEPT !.pc = "get_evm", !.trace = Append(@, cmd),
                               !.pending = SentTo(@, "trigger", WaitsForOPC(et.variant))]
          \/ et' = EtRaised(cmd)
    /\ UNCHANGED <<servoVars, modeVars, sweepVars, opcVars, log>>

\* et.py:89-99  get_evm, the assignment of its result, the appends and the
\* next delay
et_get_evm ==
    /\ et.pc = "get_evm"
    /\ \/ et' = EtRaised(<<"evm", 0>>)
       \/ \E evm \in EvmReadings :
            IF AssignsEvm(et.variant)
              THEN et' = [et EXCEPT
                            !.delays = Append(@, et.current_delay),
                            !.evms = Append(@, evm),
                            !.trace = Append(@, <<"evm", evm>>),
                            !.current_delay = @ + et.step,
                            !.i = @ + 1,
                            !.pc = AfterStep(et.i + 1, et.et_delay_shifts)]
              ELSE et' = [et EXCEPT !.pc = "raised",
                                    !.trace = Append(@, <<"evm", evm>>)]
    /\ UNCHANGED <<servoVars, modeVars, sweepVars, opcVars, log>>

\* et.py:117-124  envelope tracking is switched off and the lists are returned
et_disable ==
    /\ et.pc = "disable"
    /\ \/ et' = [et EXCEPT !.pc = "returned", !.disable_sent = TRUE,
                          !.trace = Append(@, <<"disable", 0>>),
                          !.pending = @ \ {"delay"}]
       \/ \E sent \in BOOLEAN :
            et' = [et EXCEPT !.pc = "raised", !.instr_failed = TRUE,
                             !.disable_sent = sent,
                             !.trace = IF sent THEN Append(@, <<"disable", 0>>) ELSE @]
    /\ UNCHANGED <<servoVars, modeVars, sweepVars, opcVars, log>>

\* the caller takes the returned lists (or the exception)
ETDone ==
    /\ et.pc \in {"returned", "raised"}
    /\ et' = [EtIdle(et.variant, et.et_delay_shifts) EXCEPT !.pending = et.pending]
    /\ UNCHANGED <<servoVars, modeVars, sweepVars, opcVars, log>>

\* an instrument is through with a command that was written to it
InstrumentCompletes ==
    /\ \E cmd \in et.pending : et' = [et EXCEPT !.pending = @ \ {cmd}]
    /\ UNCHANGED <<servoVars, modeVars, sweepVars, opcVars, log>>

\* ------------------------------------------------- write_command_opc
MaxPolls == 3

\* iSocket.py:90, vsa.py:203, power_meter.py:101  the three classes that
\* define write_command_opc, with the same body
OpcClasses == {"iSocket", "VSA", "PowerMeter"}

\* the replies an instrument gives to *ESR?: bit 0 is operation complete,
\* bit 1 stands for the other event bits
EsrReplies(complete) == IF complete THEN {1, 3} ELSE {0, 2}

PollEnds_OnAnyReply(reply) == TRUE

\* iSocket.py:108  while (int(self.query("*ESR?")) & 1) != 1: the loop ends
\* on a reply whose bit 0 is set
PollEnds(reply) == reply % 2 = 1

OpcIdle ==
    [pc |-> "idle", class |-> "iSocket", responsive |-> TRUE, trace |-> <<>>,
     complete |-> FALSE, polls |-> 0, last_reply |-> 0, query_failed |-> FALSE]

\* a caller invokes write_command_opc(command) on an instrument that will,
\* or will not, complete the command
OpcCall ==
    /\ opc.pc = "idle"
    /\ \E c \in OpcClasses, r \in BOOLEAN :
         opc' = [OpcIdle EXCEPT !.pc = "ese", !.class = c, !.responsive = r]
    /\ UNCHANGED <<servoVars, modeVars, sweepVars, etVars, log>>

\* iSocket.py:104-106  the three writes, in program order: each one goes out
\* or raises, and the except block logs and re-raises
OpcWrites == [ese |-> "*ESE 1", sre |-> "*SRE 32", cmd |-> "command;*OPC"]
AfterWrite == [ese |-> "sre", sre |-> "cmd", cmd |-> "poll"]

opc_write ==
    /\ opc.pc \in DOMAIN OpcWrites
    /\ \/ opc' = [opc EXCEPT !.trace = Append(@, OpcWrites[opc.pc]),
                             !.pc = AfterWrite[opc.pc]]
       \/ opc' = [opc EXCEPT !.pc = "raised", !.query_failed = TRUE]
    /\ UNCHANGED <<servoVars, modeVars, sweepVars, etVars, log>>

\* the instrument finishes the command and sets bit 0 of its event status
\* register
InstrumentSetsOPC ==
    /\ opc.pc = "poll" /\ opc.responsive /\ ~opc.complete
    /\ opc' = [opc EXCEPT !.complete = TRUE]
    /\ UNCHANGED <<servoVars, modeVars, sweepVars, etVars, log>>

\* iSocket.py:108-109  one poll: *ESR? is sent and answered (reading the
\* register clears it); bit 0 set ends the loop and the method returns, bit 0
\* clear sleeps 0.2 s and polls again.  The loop has no counter and no
\* deadline: the polls are counted up to MaxPolls only, a further poll that
\* finds the bit clear changes nothing
opc_poll_esr ==
    /\ opc.pc = "poll"
    /\ \E reply \in EsrReplies(opc.complete) :
         /\ (opc.polls < MaxPolls) \/ PollEnds(reply)
         /\ opc' = [opc EXCEPT
                      !.trace = Append(@, "*ESR?"),
                      !.last_reply = reply,
                      !.complete = FALSE,
                      !.polls = IF @ < MaxPolls THEN @ + 1 ELSE @,
                      !.pc = IF PollEnds(reply) THEN "returned" ELSE "poll"]
    /\ UNCHANGED <<servoVars, modeVars, sweepVars, etVars, log>>

\* iSocket.py:110-113  the *ESR? query fails: the except block logs and
\* re-raises
opc_poll_raises ==
    /\ opc.pc = "poll"
    /\ opc' = [opc EXCEPT !.pc = "raised", !.query_failed = TRUE]
    /\ UNCHANGED <<servoVars, modeVars, sweepVars, etVars, log>>

\* ---------------------------------------------------- parse_console_output
\* The console text is a sequence of lines; a line is the kind of text that
\* one of the regular expressions of the parser matches, and the value that
\* the group of the expression captures.
MaxLines == 5

ConsoleLines ==
    [kind : {"Testing Frequency"}, v : {"2.0", "2.1"}]
    \cup [kind : {"VSG setup time"}, v : {"1.2"}]
    \cup [kind : {"VSG configure time"}, v : {"0.1", "0.2"}]
    \cup [kind : {"evm"}, v : {"-45", "-46"}]
    \cup [kind : {"Baseline EVM Test", "polynomial dpd Test"}, v : {""}]

\* re.search(pattern, text).group(1) if re.search(pattern, text) else '':
\* the value of the first line that the pattern matches
re_search(kind, text) ==
    LET hits == {n \in 1..Len(text) : text[n].kind = kind}
    IN IF hits = {} THEN ""
       ELSE text[CHOOSE n \in hits : \A m \in hits : n <= m].v

\* parse_console_output_transposed.py:74  re.split with one group: the text
\* before the first header, then for every header its captured frequency
\* and the text up to the next header
RECURSIVE re_split(_, _)
re_split(text, piece) ==
    IF text = <<>> THEN <<piece>>
    ELSE IF Head(text).kind = "Testing Frequency"
           THEN <<piece, Head(text).v>> \o re_split(Tail(text), <<>>)
           ELSE re_split(Tail(text), Append(piece, Head(text)))

\* parse_console_output_transposed.py:84-89  the text from the first
\* baseline header to the first polynomial header after it, '' without both
BaselineSection(block) ==
    LET b == {n \in 1..Len(block) : block[n].kind = "Baseline EVM Test"}
        p == {n \in 1..Len(block) :
                /\ block[n].kind = "polynomial dpd Test"
                /\ \E m \in b : m < n}
    IN IF p = {} THEN <<>>
       ELSE SubSeq(block, CHOOSE n \in b : \A m \in b : n <= m,
                          CHOOSE n \in p : \A m \in p : n <= m)

BlockOf_First(freq_blocks, i) == freq_blocks[2]

\* parse_console_output_transposed.py:79  block = freq_blocks[i + 1] (the
\* sequence is counted from 1 here, i from 0 as in the code)
BlockOf(freq_blocks, i) == freq_blocks[i + 2]

\* parse_console_output_transposed.py:9-199  the results of the parser: the
\* run-wide fields are read from the whole text once, the others from the
\* block of the frequency or from a section of it
parse_console_output(console_output) ==
    LET base_result ==
            [VSG_Setup_Time_s |-> re_search("VSG setup time", console_output)]
        freq_blocks == Tail(re_split(console_output, <<>>))
        result(i) ==
            LET block == BlockOf(freq_blocks, i)
            IN [Test_Frequency_GHz |-> freq_blocks[i + 1],
                VSG_Setup_Time_s |-> base_result.VSG_Setup_Time_s,
                VSG_Configure_Time_s |-> re_search("VSG configure time", block),
                Baseline_EVM_dB |-> re_search("evm", BaselineSection(block))]
    IN [k \in 1..(Len(freq_blocks) \div 2) |-> result(2 * (k - 1))]

LogIdle == [pc |-> "idle", console_output |-> <<>>, results |-> <<>>]

call_parse_console_output ==
    /\ log.pc = "input"
    /\ log' = [log EXCEPT !.pc = "parsed",
                          !.results = parse_console_output(log.console_output)]
    /\ UNCHANGED <<servoVars, modeVars, sweepVars, etVars, opcVars>>

\* ------------------------------------------------------------ specifications
\* no ET object is in use
NoET == et = EtIdle(Imported, 0)

\* no write_command_opc is running
NoOPC == opc = OpcIdle

NoLog == log = LogIdle

\* power_servo.py:23-39  PowerServo(vsg, pm, vsa, max_iterations, tolerance)
PowerServoInit ==
    /\ ps \in [max_iterations : Iterations, tolerance : Tolerances]
    /\ sv = SvIdle
    /\ vsg = [level |-> 0]
    /\ obs = ObsInit

\* vsa.py:43-44 and 51-147  the flags of the configuration and VSA()
VSAInit ==
    /\ flags \in [use_power_servo : BOOLEAN, use_k18_power_servo : BOOLEAN]
    /\ vsa = VsaAfterInit
    /\ md = MdIdle
    /\ mobs = MobsInit

\* run_sweep is not running
NoSweep ==
    /\ cfg = [start |-> 0, stop |-> 0, step |-> 1, cal_dict |-> {},
              enable_polynomial_dpd |-> TRUE, enable_direct_dpd |-> TRUE,
              enable_gmp_dpd |-> TRUE, enable_et |-> FALSE,
              signal_bandwidth |-> "10MHz", frame_type |-> "full_frame"]
    /\ run = [RunInit EXCEPT !.pc = "none"]

\* the servo on its own: any number of servo_power calls on one PowerServo
ServoInit ==
    /\ PowerServoInit
    /\ flags = [use_power_servo |-> TRUE, use_k18_power_servo |-> TRUE]
    /\ vsa = VsaAfterInit
    /\ md = MdIdle
    /\ mobs = MobsInit
    /\ NoSweep
    /\ NoET
    /\ NoOPC
    /\ NoLog

ServoNext ==
    \/ ServoCall
    \/ servo_power_init
    \/ servo_power_measure
    \/ servo_power_adjust
    \/ servo_power_exhausted
    \/ ServoDone

SpecServo == ServoInit /\ [][ServoNext]_vars

\* every pending step of a call is taken: each instrument call returns or raises
SpecServoFair == SpecServo /\ WF_vars(servo_power)

\* --------------------------------- the other entry points of PowerServo
\* power_servo.py:44-58  external_servo(freq_ghz, target_output, expected_gain,
\* servo_iterations): stores servo_iterations in the object, then servo_power
external_servo ==
    /\ sv.pc = "idle"
    /\ md.status = "idle"
    /\ \E servo_iterations \in Iterations :
         ps' = [ps EXCEPT !.max_iterations = servo_iterations]
    /\ \E t \in Targets : sv' = [SvIdle EXCEPT !.pc = "call", !.target_output = t]
    /\ obs' = [ObsInit EXCEPT !.prev_ret = obs.prev_ret, !.prev_broke = obs.prev_broke]
    /\ UNCHANGED <<vsg, modeVars, sweepVars, etVars, opcVars, log>>

\* the analyzer after the first n commands of a sequence were executed
RECURSIVE AfterCommands(_, _, _)
AfterCommands(cmds, n, a) ==
    IF n = 0 THEN a ELSE Effect(cmds[n].cmd, AfterCommands(cmds, n - 1, a))

\* power_servo.py:108-143  k18_servo(target_output, servo_iterations, tolerance):
\* its arguments go to the analyzer and into the returned pair, none of them
\* into the object; a query that raises ends it after the commands before it
k18_servo ==
    /\ sv.pc = "idle"
    /\ md.status = "idle"
    /\ \E n \in 0..Len(K18Servo) : vsa' = AfterCommands(K18Servo, n, vsa)
    /\ UNCHANGED <<servoVars, flags, md, mobs, sweepVars, etVars, opcVars, log>>

ServoAPINext ==
    \/ ServoNext
    \/ external_servo
    \/ k18_servo

\* one PowerServo used through all three of its servo operations
SpecServoAPI == ServoInit /\ [][ServoAPINext]_vars

\* the VSA object driven by a caller: any sequence of its methods, until one
\* of them raises
ModesInit ==
    /\ ps \in [max_iterations : {0, 1}, tolerance : {1}]
    /\ sv = SvIdle
    /\ vsg = [level |-> 0]
    /\ obs = ObsInit
    /\ VSAInit
    /\ NoSweep
    /\ NoET
    /\ NoOPC
    /\ NoLog

ModesNext ==
    \/ CallMethod
    \/ QueryOrWrite
    \/ queryFloat
    \/ write_command_opc
    \/ opc_poll
    \/ run_servos_call
    \/ servo_power_init
    \/ servo_power_measure
    \/ servo_power_adjust
    \/ servo_power_exhausted
    \/ run_servos_resume
    \/ run_servos_raise
    \/ MethodReturn

SpecModes == ModesInit /\ [][ModesNext]_vars

\* main.py:64-132  run_sweep up to the try block: the configuration, the
\* frequency list, the calibration table, the instruments
Init ==
    /\ cfg \in [start : 0..MaxStart, stop : 0..MaxStop, step : 1..MaxStep,
                cal_dict : SUBSET (0..MaxKey),
                enable_polynomial_dpd : BOOLEAN, enable_direct_dpd : BOOLEAN,
                enable_gmp_dpd : BOOLEAN, enable_et : BOOLEAN,
                signal_bandwidth : {"10MHz"}, frame_type : {"full_frame"}]
    /\ run = RunInit
    /\ ps = [max_iterations |-> 1, tolerance |-> 1]
    /\ sv = SvIdle
    /\ vsg = [level |-> 0]
    /\ obs = ObsInit
    /\ flags = [use_power_servo |-> TRUE, use_k18_power_servo |-> TRUE]
    /\ vsa = VsaAfterInit
    /\ md = MdIdle
    /\ mobs = MobsInit
    /\ NoET
    /\ NoOPC
    /\ NoLog

Next ==
    \/ sweep_loop
    \/ sweep_pm_configure
    \/ sweep_vsg_configure
    \/ sweep_vsa_configure
    \/ QueryOrWrite
    \/ MethodReturn
    \/ sweep_vsa_configured
    \/ sweep_pm_measure
    \/ sweep_measure_evm
    \/ sweep_close_vsg
    \/ sweep_close_vsa
    \/ sweep_close_pm
    \/ sweep_save

Spec == Init /\ [][Next]_vars

\* run_sweep from the construction of its instruments on, for every
\* configuration of signal bandwidth and frame type.  The constructors read
\* the two values from the test_inputs.json of the working directory, loaded
\* when their modules are imported (vsg.py:26-31, vsa.py:33-37); run from the
\* directory of main.py this is the file run_sweep loads (main.py:47, 65)
StartupInit ==
    /\ cfg \in [start : {0}, stop : {1}, step : {1},
                cal_dict : SUBSET (0..1),
                enable_polynomial_dpd : {TRUE}, enable_direct_dpd : {TRUE},
                enable_gmp_dpd : {TRUE}, enable_et : BOOLEAN,
                signal_bandwidth : SignalBandwidths, frame_type : FrameTypes]
    /\ run = [RunInit EXCEPT !.pc = "construct", !.ctor = 1,
                              !.opened = {}, !.sent = FALSE]
    /\ ps = [max_iterations |-> 1, tolerance |-> 1]
    /\ sv = SvIdle
    /\ vsg = [level |-> 0]
    /\ obs = ObsInit
    /\ flags = [use_power_servo |-> TRUE, use_k18_power_servo |-> TRUE]
    /\ vsa = VsaAfterInit
    /\ md = MdIdle
    /\ mobs = MobsInit
    /\ NoET
    /\ NoOPC
    /\ NoLog

StartupNext ==
    \/ sweep_construct
    \/ Next

SpecStartup == StartupInit /\ [][StartupNext]_vars

\* an ET object driven by a caller: any number of et_delay_evm calls
\* main.py:129  ET(vsg, et_delay_shifts=et_delay_shifts, vsa=vsa, pm=pm)
ETInit ==
    /\ et \in {EtIdle(v, n) : v \in ETVariants, n \in 0..MaxShifts}
    /\ ps = [max_iterations |-> 1, tolerance |-> 1]
    /\ sv = SvIdle
    /\ vsg = [level |-> 0]
    /\ obs = ObsInit
    /\ flags = [use_power_servo |-> TRUE, use_k18_power_servo |-> TRUE]
    /\ vsa = VsaAfterInit
    /\ md = MdIdle
    /\ mobs = MobsInit
    /\ NoSweep
    /\ NoOPC
    /\ NoLog

ETNext ==
    \/ ETCall
    \/ et_set_delay
    \/ et_trigger
    \/ et_get_evm
    \/ et_disable
    \/ ETDone
    \/ InstrumentCompletes

SpecET == ETInit /\ [][ETNext]_vars

\* write_command_opc called on its own
OPCInit ==
    /\ opc = OpcIdle
    /\ ps = [max_iterations |-> 1, tolerance |-> 1]
    /\ sv = SvIdle
    /\ vsg = [level |-> 0]
    /\ obs = ObsInit
    /\ flags = [use_power_servo |-> TRUE, use_k18_power_servo |-> TRUE]
    /\ vsa = VsaAfterInit
    /\ md = MdIdle
    /\ mobs = MobsInit
    /\ NoSweep
    /\ NoET
    /\ NoLog

OPCNext ==
    \/ OpcCall
    \/ opc_write
    \/ InstrumentSetsOPC
    \/ opc_poll_esr
    \/ opc_poll_raises

\* every call returns or raises (no socket call hangs), the core keeps
\* polling, and an instrument that completes the command does so at some time
SpecOPCFair ==
    /\ OPCInit /\ [][OPCNext]_vars
    /\ WF_vars(opc_write) /\ WF_vars(opc_poll_esr) /\ WF_vars(InstrumentSetsOPC)

\* parse_console_output applied to a console text
ParseInit ==
    /\ log \in {[LogIdle EXCEPT !.pc = "input", !.console_output = t] :
                   t \in UNION {[1..n -> ConsoleLines] : n \in 0..MaxLines}}
    /\ ps = [max_iterations |-> 1, tolerance |-> 1]
    /\ sv = SvIdle
    /\ vsg = [level |-> 0]
    /\ obs = ObsInit
    /\ flags = [use_power_servo |-> TRUE, use_k18_power_servo |-> TRUE]
    /\ vsa = VsaAfterInit
    /\ md = MdIdle
    /\ mobs = MobsInit
    /\ NoSweep
    /\ NoET
    /\ NoOPC

SpecParse == ParseInit /\ [][call_parse_console_output]_vars

\* ------------------------------------------------------ servo properties
ServoEnded == sv.pc \in {"returned", "raised"}

\* C1: servo_power always terminates: whatever the power meter reads back, the
\* loop takes at most max_iterations output-power measurements, and a call
\* that was started ends (it returns, or an instrument call raised).
C1_ServoTerminates ==
    /\ [](obs.n_meas <= ps.max_iterations)
    /\ ((sv.pc = "call") ~> ServoEnded)

\* a run that never converged has returned after exactly max_iterations readings
C1_Witness ==
    /\ sv.pc = "returned"
    /\ ~obs.broke
    /\ ps.max_iterations >= 2
    /\ obs.n_meas = ps.max_iterations

\* C2: when servo_power stops because of convergence, the last output power it
\* measured is strictly within the tolerance of the target, and no generator
\* power change was applied after that measurement.
C2_ConvergedWithinTolerance ==
    (sv.pc = "returned" /\ obs.broke) =>
        /\ Abs(sv.current_output - sv.target_output) < ps.tolerance
        /\ ~obs.unverified

\* a run converged on a later iteration, after at least one adjustment
C2_Witness ==
    /\ sv.pc = "returned"
    /\ obs.broke
    /\ obs.n_meas >= 2
    /\ obs.n_set >= 2

\* C4: the value returned by a servo run tells whether it converged: two runs
\* of the same PowerServo that return the same value either both converged or
\* both exhausted max_iterations.
C4_ReturnTellsConvergence ==
    (sv.pc = "returned" /\ obs.prev_ret # None /\ sv.ret = obs.prev_ret) =>
        (obs.broke = obs.prev_broke)

\* C19: the first generator power applied by a servo run is target_output
\* minus the gain (measured_out - measured_in) of the reference reading taken
\* at servo entry, whatever expected_gain is and whatever earlier runs did.
C19_FirstPowerFromMeasuredGain ==
    (sv.pc # "idle" /\ obs.n_set >= 1) =>
        obs.first_set = sv.target_output - obs.ref_gain

\* a second run of the same servo applied its first power, the generator
\* having been left at another level by the run before
C19_Witness ==
    /\ sv.pc = "loop" /\ sv.i = 0
    /\ obs.prev_ret # None
    /\ obs.n_set = 1
    /\ obs.first_set # 0
    /\ obs.ref_gain # 0

\* C20: the iteration count returned by servo_power is the number of output
\* measurements taken in its loop: k when the k-th reading is the first one
\* within tolerance, max_iterations when no reading is within tolerance.
C20_CountIsMeasurements ==
    sv.pc = "returned" =>
        /\ sv.ret[1] = obs.n_meas
        /\ sv.ret[1] = IF obs.first_within > 0 THEN obs.first_within
                                               ELSE ps.max_iterations

\* a run returned 2: its second reading was the first within tolerance
C20_Witness ==
    /\ sv.pc = "returned"
    /\ obs.first_within = 2
    /\ sv.ret[1] = 2

\* ------------------------------------------------------- mode properties
Began(m) == Running /\ md.mode = m /\ md.pc = 1 /\ ~md.polling
Returned(m) == md.status = "returned" /\ md.mode = m

\* C3: servo non-convergence is not an error: a mode whose servo ran out of
\* iterations is not left by an exception unless an instrument call failed,
\* and when it returns it has fetched its EVM and its ACLR result.
C3_NonConvergenceIsNoError ==
    /\ (mobs.servo_exhausted /\ ~mobs.failed) => md.status \in {"running", "returned"}
    /\ (mobs.servo_exhausted /\ md.status = "returned") =>
           (mobs.evm_fetched /\ mobs.aclr_fetched)

\* a DPD mode returned after a servo that did not converge
C3_Witness ==
    /\ Returned("perform_gmp_dpd")
    /\ mobs.servo_exhausted
    /\ ~mobs.failed
    /\ mobs.evm_fetched /\ mobs.aclr_fetched

\* C5: when a mode operation returns, the analyzer's selected application is
\* 5G NR, and so it is when the next mode begins.
C5_ContextPaired ==
    /\ (md.status = "returned" /\ md.mode \in MeasureModes) => vsa.app = "5G NR"
    /\ (\E m \in MeasureModes : Began(m) /\ mobs.after \in MeasureModes) =>
           vsa.app = "5G NR"

\* direct DPD with the K18 servo switched into the Amplifier application
\* (setup, K18 servo, teardown) and has returned
C5_Witness ==
    /\ Returned("perform_direct_dpd")
    /\ flags.use_k18_power_servo
    /\ mobs.entered_dpd
    /\ vsa.app = "5G NR"

\* C6: each non-baseline mode disables the correction it enabled before the
\* next mode starts: polynomial AM/AM and AM/PM are off when direct DPD
\* begins, direct DPD and its application are off when GMP begins, and direct
\* DPD and memory DPD are off after GMP returns.
C6_CorrectionDisabledBeforeNext ==
    /\ Began("perform_direct_dpd") => (~vsa.amam /\ ~vsa.ampm)
    /\ Began("perform_gmp_dpd") => (~vsa.ddpd /\ ~vsa.ddpd_appl)
    /\ Returned("perform_gmp_dpd") => (~vsa.ddpd /\ ~vsa.mdpd)

CorrectionOff(m) ==
    CASE m = "perform_polynomial_dpd" -> ~vsa.amam /\ ~vsa.ampm
      [] m = "perform_direct_dpd"     -> ~vsa.ddpd /\ ~vsa.ddpd_appl
      [] m = "perform_gmp_dpd"        -> ~vsa.ddpd /\ ~vsa.mdpd /\ vsa.wav = "REF"
      [] OTHER                        -> TRUE

\* C7: teardown runs on every exit path of a non-baseline mode: when a
\* failure leaves a mode that had enabled its correction, the correction is
\* disabled and the analyzer is back in the 5G NR application.
C7_TeardownOnFailure ==
    (md.status = "raised" /\ md.mode \in DpdModes /\ mobs.corr_enabled) =>
        (CorrectionOff(md.mode) /\ vsa.app = "5G NR")

\* C13: every instrument command or query failure during a mode is re-raised
\* to the caller: a mode in which a command or query failed (the power and
\* EVM fetches included) does not return normally.
C13_FailuresReRaised ==
    (md.status = "returned" /\ md.mode \in MeasureModes) => ~mobs.failed

\* C18: with the external servo and the K18 servo both enabled, the servo
\* iteration count a mode reports is the sum of the iterations of the two.
C18_ServoLoopsSummed ==
    (md.status = "returned" /\ md.mode \in MeasureModes
        /\ flags.use_power_servo /\ flags.use_k18_power_servo) =>
        ReportedLoops(mobs.servo_loops, mobs.k18_loops)
            = mobs.ext_loops + mobs.k18_loops

\* ------------------------------------------------------ sweep properties
ModeOrder ==
    <<"measure_evm", "perform_polynomial_dpd", "perform_direct_dpd", "perform_gmp_dpd">>

\* main.py:177,194,211  the baseline always, the others by their enable flag
Enabled(m) ==
    CASE m = "measure_evm"            -> TRUE
      [] m = "perform_polynomial_dpd" -> cfg.enable_polynomial_dpd
      [] m = "perform_direct_dpd"     -> cfg.enable_direct_dpd
      [] m = "perform_gmp_dpd"        -> cfg.enable_gmp_dpd

ExpectedModes == SelectSeq(ModeOrder, Enabled)

\* the modes whose body started at the j-th requested frequency, in order
StartedAt(j) ==
    LET at == SelectSeq(run.started, LAMBDA e : e[1] = j)
    IN [n \in 1..Len(at) |-> at[n][2]]

IsPrefix(a, b) == Len(a) <= Len(b) /\ \A n \in 1..Len(a) : a[n] = b[n]

Calibrated(j) == Round3(freqs[j]) \in cfg.cal_dict

\* the loop reached the j-th requested frequency and found its calibration entry
Processed(j) == j <= run.k /\ Calibrated(j)

SweepEnded == run.pc = "exit"

\* C8: at every processed frequency the modes run in the fixed order
\* Baseline, Polynomial, Direct, GMP: the baseline always and first, each
\* other mode only if it is enabled; when the sweep has ended without an
\* instrument failure, every processed frequency had exactly these modes.
C8_FixedModeOrder ==
    /\ \A j \in 1..Len(freqs) : IsPrefix(StartedAt(j), ExpectedModes)
    /\ (SweepEnded /\ ~run.failed) =>
           \A j \in 1..Len(freqs) : Processed(j) => StartedAt(j) = ExpectedModes

\* the records emitted for the j-th requested frequency
RecordsOf(j) == {r \in 1..Len(run.results) : run.results[r].request = j}

\* C10: a run of run_sweep in which no instrument call fails emits exactly
\* one record for every requested frequency that has a calibration entry and
\* none for a frequency without one.
C10_OneRecordPerCalibratedFrequency ==
    (SweepEnded /\ ~run.failed) =>
        \A j \in 1..Len(freqs) :
            Cardinality(RecordsOf(j)) = IF Calibrated(j) THEN 1 ELSE 0

Handles == {"vsg", "vsa", "pm"}

\* C11: whenever the frequency loop of run_sweep has ended, normally or by a
\* failure, and run_sweep is left, all three instrument handles are closed.
C11_HandlesReleased == SweepEnded => run.closed = Handles

\* C12: a failure in the middle of the sweep still produces a report: when a
\* mode failed at a calibrated frequency, run_sweep has written a report that
\* holds exactly one record for each calibrated frequency completed before
\* it, and none for the failing or a later frequency.
C12_PartialReport ==
    (SweepEnded /\ run.mode_failed) =>
        /\ run.report # None
        /\ run.report = run.results
        /\ \A j \in 1..Len(freqs) :
               Cardinality(RecordsOf(j)) = IF Calibrated(j) /\ j < run.k THEN 1 ELSE 0

CleanupPcs == {"close_vsg", "close_vsa", "close_pm", "save", "exit"}

\* C14: no retry and no continuation after a failure: once something raised
\* in the loop, run_sweep is in its cleanup, and from then on no frequency is
\* taken up and no mode is started.
C14_NoRetryNoContinuation ==
    /\ [](run.error # None => run.pc \in CleanupPcs)
    /\ [][run.error # None =>
             /\ run'.k = run.k
             /\ run'.matched_frequencies = run.matched_frequencies
             /\ run'.started = run.started]_vars

\* the call of a mode failed while a later requested frequency with a
\* calibration entry was still to come, and run_sweep has ended
C14_Witness ==
    /\ SweepEnded
    /\ run.mode_failed
    /\ \E j \in 1..Len(freqs) : j > run.k /\ Calibrated(j)
    /\ Len(run.matched_frequencies) = 1

\* the ET delay sweeps run for the j-th requested frequency in mode m
ETRunsOf(j, m) == {n \in 1..Len(run.et_runs) : run.et_runs[n] = <<j, m>>}

\* C17: with envelope tracking enabled every mode executed at a processed
\* frequency runs exactly one ET delay sweep; with it disabled none runs.
C17_OneETSweepPerMode ==
    /\ ~cfg.enable_et => run.et_runs = <<>>
    /\ (SweepEnded /\ ~run.failed) =>
           \A j \in 1..Len(freqs) : Processed(j) =>
               \A n \in 1..Len(ExpectedModes) :
                   Cardinality(ETRunsOf(j, ExpectedModes[n]))
                       = IF cfg.enable_et THEN 1 ELSE 0

\* --------------------------------------------------------- ET properties
ETEnded == et.pc \in {"returned", "raised"}

\* C15: an envelope-tracking sweep of the ET class that run_sweep uses, with
\* et_delay_shifts = n, in which no instrument call fails, completes and
\* returns delays and evms of equal length n + 1 with
\* delays[i] = start_delay + i*step for every i in 0..n.
C15_ETSweepLengths ==
    (et.variant = Imported /\ ETEnded /\ ~et.instr_failed) =>
        /\ et.pc = "returned"
        /\ Len(et.delays) = et.et_delay_shifts + 1
        /\ Len(et.evms) = et.et_delay_shifts + 1
        /\ \A i \in 0..et.et_delay_shifts :
               et.delays[i + 1] = et.start_delay + i * et.step

\* C16: envelope-tracking teardown is unconditional: on every exit from
\* et_delay_evm, by return or by an exception, the command that disables
\* envelope tracking on the generator has been sent.
C16_ETDisabledOnEveryExit == ETEnded => et.disable_sent

\* C30: after every loop measurement that is not within tolerance the servo
\* applies input := input + (target - current): the level it sets is the level
\* it set last plus the error of the reading just taken, and no earlier reading
\* enters the correction.
C30_ProportionalCorrection ==
    [][/\ (sv.pc = "loop" /\ sv'.pc \in {"measured", "returned"}
            /\ obs'.n_meas = obs.n_meas + 1)
           => (sv'.pc = "measured"
                <=> ~(Abs(sv'.current_output - sv.target_output) < ps.tolerance))
       /\ (sv.pc = "measured" /\ sv'.pc = "loop")
           => /\ sv.input_power = vsg.level
              /\ vsg'.level = vsg.level + (sv.target_output - sv.current_output)
              /\ sv'.input_power = vsg'.level]_vars

\* a third level has been applied: two corrections, the second one on top of
\* a level that was itself corrected
C30_Witness ==
    /\ sv.pc = "loop"
    /\ obs.n_set >= 3
    /\ vsg.level # sv.target_output - sv.current_output

\* C28: the servo parameters are fixed for the run: no servo operation
\* (servo_power, external_servo, k18_servo) changes the tolerance or the
\* max_iterations that later invocations of the same PowerServo use.
C28_ServoParametersImmutable == [][ps' = ps]_vars

\* C23: when the internal (K18) servo runs inside a mode, the target power,
\* the iteration limit and the tolerance sent to the analyzer are the run's
\* target_output, servo_iterations and tolerance, and the iteration count the
\* mode reports is the value read back from the analyzer.
C23_K18ParametersAndCount ==
    \A m \in MeasureModes :
      /\ (md.mode = m /\ mobs.k18_loops > 0)
           => /\ Len(mobs.k18_sent) = 3
              /\ \A i \in 1..3 : mobs.k18_sent[i].interpolated
              /\ mobs.k18_sent[1].value = md.target_output
              /\ mobs.k18_sent[2].value = ps.max_iterations
              /\ mobs.k18_sent[3].value = ps.tolerance
      /\ (Returned(m) /\ ~flags.use_power_servo /\ mobs.k18_loops > 0)
           => mobs.servo_loops = mobs.k18_loops

\* C24: GMP runs the same iterative base training as Direct: the direct-DPD
\* training commands perform_gmp_dpd has sent before its GMP fit are those of
\* perform_direct_dpd (enable, parameters and iteration count, start, apply
\* the result, update the waveform), and when perform_gmp_dpd returns, its
\* teardown has reverted everything that the training enabled.
C24_GmpTrainsLikeDirect ==
    /\ (md.mode = "perform_gmp_dpd" /\ Running /\ md.pc > Len(GmpSetup))
         => mobs.training = TrainingOf(DirectSetup)
    /\ Returned("perform_gmp_dpd")
         => (~vsa.ddpd /\ ~vsa.ddpd_appl /\ vsa.wav = "REF")

\* C25: every non-baseline mode enters the DPD context before it trains: it
\* has selected the Amplifier application, enabled the analyzer's connection
\* to and control of the generator and pulled in the generator settings, so
\* no training command is sent while the generator connection is off.
C25_DpdContextBeforeTraining ==
    \A m \in DpdModes :
      (Running /\ md.mode = m /\ ~AtEnd /\ Cur.cmd \in TrainStartCmds)
        => /\ Sent("INST:SEL Amplifier") /\ vsa.app = "Amplifier"
           /\ vsa.gen_conn /\ vsa.gen_cont
           /\ Sent("CONF:GEN:CONN:STAT ON") /\ Sent("CONF:GEN:CONT:STAT ON")
           /\ Sent("CONF:SETT")

\* C26: Baseline is measured with no DPD applied: whenever measure_evm is
\* about to trigger its EVM or its ACLR measurement, no correction is enabled
\* on the analyzer: not polynomial AM/AM or AM/PM, not direct DPD or its
\* application, and the reference waveform is selected, not the MDPD one.
C26_BaselineWithoutCorrection ==
    (Running /\ md.mode = "measure_evm" /\ ~AtEnd /\ Cur.cmd \in TriggerCmds)
      => /\ ~vsa.amam /\ ~vsa.ampm
         /\ ~vsa.ddpd /\ ~vsa.ddpd_appl
         /\ vsa.wav = "REF"

\* C29: in every mode the stages run in the order training (non-baseline
\* modes only), power servo, EVM and power measurement, ACLR measurement:
\* power and EVM are fetched from a trigger issued after training and servo
\* finished, with the 5G NR application selected and the EVM measurement set,
\* and the ACLR values from another, later trigger issued after the switch to
\* the ACLR measurement.
C29_StageOrder ==
    \A m \in MeasureModes :
      (md.mode = m /\ md.status \in {"running", "returned", "raised"}) =>
        /\ \A src \in (IF mobs.evm_fetched THEN {mobs.pow_src, mobs.evm_src} ELSE {}) :
              /\ src.id > 0
              /\ src.app = "5G NR" /\ src.meas = "EVM"
              /\ src.after_training /\ src.after_servo
        /\ mobs.evm_fetched => mobs.pow_src = mobs.evm_src
        /\ mobs.aclr_fetched =>
              /\ mobs.evm_fetched
              /\ mobs.aclr_src.id > mobs.evm_src.id
              /\ mobs.aclr_src.app = "5G NR" /\ mobs.aclr_src.meas = "ACLR"
              /\ mobs.aclr_src.after_evm

\* a GMP call returned after training, both servos and both measurements
C29_Witness ==
    /\ Returned("perform_gmp_dpd")
    /\ mobs.servo_ran /\ mobs.k18_loops > 0
    /\ mobs.evm_fetched /\ mobs.aclr_fetched
    /\ mobs.aclr_src.id = mobs.evm_src.id + 1

\* C21: every command the core sends is synchronous: the core waits for the
\* reply or for operation-complete before it sends the next command, so when
\* it is about to send a command, and in particular when it is about to
\* fetch a measurement result, no delay setting and no trigger it sent
\* earlier may still be executing.
C21_EveryCommandSynchronous ==
    et.pc \in {"set_delay", "trigger", "get_evm", "disable"} => et.pending = {}

\* C22: a configuration error is raised immediately and is fatal: with an
\* unsupported signal bandwidth or frame type run_sweep ends with an error
\* before any instrument connection is opened or any command is sent, and no
\* frequency is processed.
C22_ConfigurationErrorFirst ==
    ~Supported(cfg.signal_bandwidth, cfg.frame_type) =>
        /\ run.pc \in {"construct", "unhandled"}
        /\ run.pc = "unhandled" => run.error = "ValueError"
        /\ run.opened = {} /\ ~run.sent
        /\ run.ctor = 1
        /\ run.matched_frequencies = <<>> /\ run.started = <<>> /\ run.k = 1

\* run_sweep was left by the ValueError of an unsupported configuration
C22_Witness ==
    /\ ~Supported(cfg.signal_bandwidth, cfg.frame_type)
    /\ run.pc = "unhandled" /\ run.error = "ValueError"

\* C27: every frequency that run_sweep processes lies in [start, stop] and
\* is start + k * step for some k >= 0; the frequencies are visited in
\* strictly increasing order, each once, also when stop - start is not a
\* multiple of step (for a sweep whose start is not above its stop).
C27_FrequenciesWithinRange ==
    \A j \in 1..Len(freqs) :
      (cfg.start <= cfg.stop /\ Calibrated(j) /\ (j < run.k \/ (j = run.k /\ run.pc # "loop"))) =>
        /\ cfg.start <= freqs[j] /\ freqs[j] <= cfg.stop
        /\ \E k \in 0..Len(freqs) : freqs[j] = cfg.start + k * cfg.step
        /\ \A i \in 1..(j - 1) : freqs[i] < freqs[j]

\* C33: on every return from servo_power, converged or not, the generator
\* power applied last is one whose resulting output power the servo measured
\* afterwards: no adjustment is left unverified by a measurement (for a
\* servo that is allowed at least one iteration).
C33_NoUnverifiedAdjustment ==
    (sv.pc = "returned" /\ ps.max_iterations >= 1) => ~obs.unverified

\* the trace the claim describes: for i = 0..n the delay, one trigger and the
\* EVM read, then one disable
RECURSIVE SweepTrace(_)
SweepTrace(i) ==
    IF i = 0 THEN <<>>
    ELSE SweepTrace(i - 1) \o
         << <<"delay", et.start_delay + (i - 1) * et.step>>,
            <<"trigger", 0>>, <<"evm", et.evms[i]>> >>

\* C31: the command trace of an envelope-tracking sweep with n shifts in which
\* no instrument call fails is, for i = 0..n in order, (set delay_i, trigger
\* one measurement, read EVM), so that evms[i] is the reading taken after
\* delay_i, followed by exactly one ET-disable command after the last reading
\* and before the function returns.
C31_ETCommandTrace ==
    (ETEnded /\ ~et.instr_failed) =>
        /\ et.pc = "returned"
        /\ Len(et.evms) = et.et_delay_shifts + 1
        /\ et.trace = SweepTrace(et.et_delay_shifts + 1) \o << <<"disable", 0>> >>

SocketOf == [vsg |-> "vsg", vsa |-> "vsa_instr", pm |-> "pm"]

ClosedSockets == {SocketOf[h] : h \in run.closed}

\* C34: every socket opened during run_sweep by the constructors of VSG, VSA
\* and PowerMeter is closed when run_sweep is left: normally, by a failure
\* inside the sweep, or by the failure of a later instrument's constructor.
C34_EverySocketClosed ==
    run.pc \in {"exit", "unhandled"} => run.opened \subseteq ClosedSockets

\* C35: the cleanup steps are independent: when closing one instrument
\* raised, the other two instruments are closed all the same and the report
\* is written all the same.
C35_IndependentCleanup ==
    (SweepEnded /\ run.error = "close") =>
        /\ \E h \in Handles : run.closed = Handles \ {h}
        /\ run.report # None

HeaderLines ==
    {n \in 1..Len(log.console_output) :
        log.console_output[n].kind = "Testing Frequency"}

HeaderAt(k) ==
    CHOOSE n \in HeaderLines : Cardinality({m \in HeaderLines : m < n}) = k - 1

Between(k) ==
    {n \in 1..Len(log.console_output) :
        /\ HeaderAt(k) < n
        /\ \A h \in HeaderLines : h > HeaderAt(k) => n < h}

\* C37: parse_console_output returns exactly one result per line '--- Testing
\* Frequency: X GHz ---' of the text, in the order of the headers, with
\* Test_Frequency_GHz = X; the run-wide fields are the same in all results;
\* every per-frequency field is taken only from the text between the header
\* of its result and the next header.
C37_OneResultPerHeader ==
    log.pc = "parsed" =>
        /\ Len(log.results) = Cardinality(HeaderLines)
        /\ \A k \in 1..Len(log.results) :
              LET r == log.results[k]
                  lines(kind) ==
                      {n \in Between(k) : log.console_output[n].kind = kind}
              IN /\ r.Test_Frequency_GHz = log.console_output[HeaderAt(k)].v
                 /\ r.VSG_Setup_Time_s = log.results[1].VSG_Setup_Time_s
                 /\ IF lines("VSG configure time") = {}
                      THEN r.VSG_Configure_Time_s = ""
                      ELSE \E n \in lines("VSG configure time") :
                              r.VSG_Configure_Time_s = log.console_output[n].v
                 /\ \/ r.Baseline_EVM_dB = ""
                    \/ \E n \in lines("evm") :
                          r.Baseline_EVM_dB = log.console_output[n].v

\* a text with two headers was parsed, and each of the two results has a
\* configure time of its own
C37_Witness ==
    /\ log.pc = "parsed" /\ Len(log.results) = 2
    /\ log.results[1].VSG_Configure_Time_s # ""
    /\ log.results[2].VSG_Configure_Time_s # ""
    /\ log.results[1].VSG_Configure_Time_s # log.results[2].VSG_Configure_Time_s

====
